---- MODULE Spec2Model ----
(***************************************************************************)
(* FetchLoader (src/utils/fetch-loader.ts): one cancellable, timed GET     *)
(* with an optional progress pump.                                         *)
(*                                                                         *)
(* The loader is driven by its caller (load, abort, destroy) and by three  *)
(* asynchronous agents it does not control: the transport (window.fetch    *)
(* and the body readers), the timer (window.setTimeout) and the clock      *)
(* (performance.now).  A promise settling and the handler chained on it    *)
(* are two steps: between them the continuation is pending and the caller, *)
(* the timer or the transport may act.  The loader hands the transport its *)
(* signal and checks nothing afterwards, so the model lets the transport   *)
(* settle either way at any time, before or after the signal is aborted.   *)
(*                                                                         *)
(* Every load() call starts a promise chain, a timer and possibly a pump   *)
(* of its own, whose handlers close over that call's callbacks; nothing    *)
(* ends those of an earlier call.  What the calls share is the instance:   *)
(* stats, controller, response and the requestTimeout field, which holds   *)
(* the id of the timer armed last.  Chain, pump, timer, callbacks and log  *)
(* are therefore kept per load() call, numbered 1..MaxLoads; index 0       *)
(* stands for the instance before its first load().                        *)
(*                                                                         *)
(* The caller keeps to the contract of one load at a time: it calls load() *)
(* again only after the last load has settled, was cancelled or failed to  *)
(* start.  A run is followed for MaxTurns turns of the event loop.         *)
(*                                                                         *)
(* Three specifications share the actions.  Spec runs the Loader for a     *)
(* caller that loads one whole resource with one callbacks object, under a *)
(* clock that stands still; TimeSpec lets the clock return any reading at  *)
(* any time; ParamSpec builds the request of every context in Contexts     *)
(* under either request factory.  No timestamp and no request header       *)
(* decides which step the Loader takes.                                    *)
(***************************************************************************)
EXTENDS Integers, Sequences, FiniteSets

\* ---------------------------------------------------------------- bounds
\* load() calls on one Loader instance
MaxLoads == 2
\* abort()/destroy() calls between two load() calls
MaxCalls == 1
\* chunks the pump's reader delivers per load
MaxChunks == 1
\* under TimeSpec performance.now() returns 1..MaxClock, in any order
MaxClock == 2
\* payload, chunk and Content-Length sizes range up to MaxLen
MaxLen == 1
\* context.rangeStart ranges over 0..MaxRange, context.rangeEnd one further
MaxRange == 11
\* turns of the event loop (calls of the caller, timer callbacks, promise
\* settlements and promise reactions) a run is followed for
MaxTurns == 8

Clock    == 1..MaxClock
Lengths  == 0..MaxLen
Statuses == {200, 404}          \* one success and one non-success status
NoCode   == -1                  \* error.code of an error that carries none
Absent   == -1                  \* an optional number that is undefined
ThrownCode == 7                 \* the code of a thrown object that has one
Loads    == 0..MaxLoads         \* load() calls; 0: before the first

VARIABLES
  stats,           \* this.stats (LoadStats)
  controller,      \* this.controller: [aborted |-> signal.aborted]
  response,        \* this.response;  received = FALSE while undefined
  requestTimeout,  \* this.requestTimeout: id of the timer armed last, or 0
  context,         \* this.context
  request,         \* this.request; method = "" while undefined
  fetchSetup,      \* this.fetchSetup: "getRequest" or a custom factory
  loads,           \* load() calls made so far
  initParams,      \* what getRequestParameters returned to the last load()
  callbacks,       \* callbacks[l]: the callbacks argument of load() call l;
                   \* this.callbacks is callbacks[loads]
  timer,           \* timer[l]: the timer armed by load() call l
  chain,           \* chain[l]: position of call l's then().then().catch()
  settledWith,     \* settledWith[l]: what its pending continuation receives
  pump,            \* pump[l]: position of call l's progress pump
  log,             \* log[l]: callbacks invoked on callbacks[l], and the
                   \* abort()/destroy() calls made while l was the last load
  reported,        \* reported[l]: the error given to call l's last onError
  contexts,        \* the contexts the caller may pass to load()
  handlers,        \* the callbacks objects the caller may pass to load()
  clock,           \* the readings performance.now() can return
  turns            \* turns of the event loop taken so far

vars == <<stats, controller, response, requestTimeout, context, request,
          fetchSetup, loads, initParams, callbacks, timer, chain,
          settledWith, pump, log, reported, contexts, handlers, clock,
          turns>>

\* what the constructor's configuration and the environment fix for good
fixed == <<fetchSetup, contexts, handlers, clock>>

Max(a, b) == IF a >= b THEN a ELSE b

\* response.ok of the Fetch API: status in 200..299
Ok(status) == status >= 200 /\ status <= 299

\* ------------------------------------------------------------- strings
\* a string is the sequence of its characters
Digit == <<"0", "1", "2", "3", "4", "5", "6", "7", "8", "9">>

\* String(v) / string concatenation of a value: decimal digits of a
\* non-negative integer, "undefined" for a missing one
RECURSIVE ToString(_)
ToString(v) ==
  IF v = Absent THEN <<"u", "n", "d", "e", "f", "i", "n", "e", "d">>
  ELSE IF v < 10 THEN <<Digit[v + 1]>>
  ELSE ToString(v \div 10) \o <<Digit[(v % 10) + 1]>>

\* parseInt(s) of a string of decimal digits
RECURSIVE parseInt(_)
parseInt(s) ==
  IF Len(s) = 0 THEN 0
  ELSE 10 * parseInt(SubSeq(s, 1, Len(s) - 1))
       + (CHOOSE d \in 0..9 : Digit[d + 1] = s[Len(s)])

\* ------------------------------------------------- request parameters
\* the contexts a caller may pass: a url that the Request constructor
\* accepts or not, and no range or rangeStart and rangeEnd
Contexts ==
  [url        : {"valid", "invalid"},
   rangeStart : {Absent} \cup 0..MaxRange,
   rangeEnd   : {Absent} \cup 0..(MaxRange + 1)]

\* the contexts without a range
Whole == {ctx \in Contexts : ctx.rangeStart = Absent /\ ctx.rangeEnd = Absent}

NoContext == [url |-> "", rangeStart |-> Absent, rangeEnd |-> Absent]

\* the one signal of the instance, this.controller.signal
Signal == "controller.signal"

\* a Headers object: a function from the names it holds to their values
NoHeaders == [name \in {} |-> <<>>]

\* getRequestParameters() that asks for the bytes up to rangeEnd inclusive
getRequestParameters_InclusiveEnd(ctx, signal) ==
  [method |-> "GET", mode |-> "cors", credentials |-> "same-origin",
   signal |-> signal,
   headers |-> IF ctx.rangeEnd # Absent /\ ctx.rangeEnd # 0
                 THEN [name \in {"Range"} |->
                         <<"b", "y", "t", "e", "s", "=">>
                         \o ToString(ctx.rangeStart) \o <<"-">>
                         \o ToString(ctx.rangeEnd)]
                 ELSE NoHeaders]

\* getRequestParameters(context, signal): a CORS GET carrying the signal,
\* with a Range header when context.rangeEnd is truthy
getRequestParameters(ctx, signal) ==
  [method |-> "GET", mode |-> "cors", credentials |-> "same-origin",
   signal |-> signal,
   headers |-> IF ctx.rangeEnd # Absent /\ ctx.rangeEnd # 0
                 THEN [name \in {"Range"} |->
                         <<"b", "y", "t", "e", "s", "=">>
                         \o ToString(ctx.rangeStart) \o <<"-">>
                         \o ToString(ctx.rangeEnd - 1)]
                 ELSE NoHeaders]

NoRequest == [method |-> "", mode |-> "", credentials |-> "", signal |-> "",
              headers |-> NoHeaders]

\* getRequest(context, initParams): new Request(context.url, initParams),
\* which raises a TypeError on a url it cannot parse
getRequest(ctx, params) ==
  IF ctx.url = "valid" THEN [raised |-> FALSE, value |-> params]
                       ELSE [raised |-> TRUE, value |-> NoRequest]

\* this.fetchSetup(context, initParams): getRequest, or the factory given
\* as config.fetchSetup, which here turns the request into a POST
callFetchSetup(ctx, params) ==
  IF fetchSetup = "getRequest" THEN getRequest(ctx, params)
  ELSE [raised |-> FALSE, value |-> [params EXCEPT !.method = "POST"]]

\* ------------------------------------------------------ values in flight
\* error: which failure rejected the chain ("" when a value is pending);
\* nullish: the reason thrown is undefined or null
NoValue == [status |-> 0, headers |-> NoHeaders, length |-> 0,
            code |-> NoCode, error |-> "", nullish |-> FALSE]

NoError == [code |-> NoCode, error |-> ""]

NoCallbacks == [registered |-> FALSE, onProgress |-> FALSE, onAbort |-> FALSE]

\* the callbacks objects a caller may pass: onSuccess, onError and onTimeout
\* always, onProgress and onAbort or not
Callbacks == [registered : {TRUE}, onProgress : BOOLEAN, onAbort : BOOLEAN]

\* what a callback may throw: an Error without code, an object with a
\* code, or undefined/null
Thrown == {[code |-> NoCode, nullish |-> FALSE],
           [code |-> ThrownCode, nullish |-> FALSE],
           [code |-> NoCode, nullish |-> TRUE]}

\* new LoadStats(): nothing aborted, no bytes, timestamps unset (0)
LoadStats ==
  [aborted |-> FALSE, trequest |-> 0, tfirst |-> 0, tload |-> 0,
   loaded |-> 0, total |-> 0]

\* constructor(config): fetchSetup, a controller and a stats record made
\* once per instance; everything else is left undefined.  ctxs are the
\* contexts the caller will load, readings what the clock returns
Constructed(setup, ctxs, cbs, readings) ==
  /\ stats = LoadStats
  /\ controller = [aborted |-> FALSE]
  /\ response = [received |-> FALSE, status |-> 0, headers |-> NoHeaders]
  /\ requestTimeout = 0
  /\ context = NoContext
  /\ request = NoRequest
  /\ fetchSetup = setup
  /\ loads = 0
  /\ initParams = NoRequest
  /\ callbacks = [l \in Loads |-> NoCallbacks]
  /\ timer = [l \in Loads |-> "unset"]
  /\ chain = [l \in Loads |-> "idle"]
  /\ settledWith = [l \in Loads |-> NoValue]
  /\ pump = [l \in Loads |-> "off"]
  /\ log = [l \in Loads |-> <<>>]
  /\ reported = [l \in Loads |-> NoError]
  /\ contexts = ctxs
  /\ handlers = cbs
  /\ clock = readings
  /\ turns = 0

\* the default request factory, a caller that loads one whole resource with
\* one callbacks object, and a clock that stands still: no claim checked
\* from here reads a timestamp or a request
Init ==
  \E ctx \in Whole, cb \in Callbacks : Constructed("getRequest", {ctx}, {cb}, {1})

\* ------------------------------------------------------------- helpers
Count(s, e) == Cardinality({i \in 1..Len(s) : s[i] = e})

Terminal      == {"onSuccess", "onError", "onTimeout"}
Notifications == Terminal \cup {"onAbort"}
Cancels       == {"abort()", "destroy()"}

Has(l, e)    == \E i \in 1..Len(log[l]) : log[l][i] = e
HasAny(l, S) == \E i \in 1..Len(log[l]) : log[l][i] \in S

\* abort()/destroy() calls since the last load()
Calls == Cardinality({i \in 1..Len(log[loads]) : log[loads][i] \in Cancels})

\* load() call l got as far as issuing its fetch
Started(l) == l \in 1..loads /\ chain[l] # "idle"

\* the load has reached a terminal outcome: a terminal callback was invoked,
\* abort() or destroy() was called, or the promise chain ran to its end
Settled(l) == Started(l) /\ (chain[l] = "done" \/ HasAny(l, Terminal \cup Cancels))

\* clearTimeout(id): cancels a pending timer, no effect otherwise
clearTimeout(id) ==
  IF timer[id] = "armed" THEN [timer EXCEPT ![id] = "cleared"] ELSE timer

\* every action is one turn of the event loop
Turn ==
  /\ turns < MaxTurns
  /\ turns' = turns + 1

\* abortInternal() that signals the controller and forgets stats.aborted
abortInternal_SignalOnly ==
  /\ controller' = [aborted |-> TRUE]
  /\ UNCHANGED stats

\* abortInternal(): stats.aborted = true; controller.abort()
abortInternal ==
  /\ stats' = [stats EXCEPT !.aborted = TRUE]
  /\ controller' = [aborted |-> TRUE]

\* ------------------------------------------------------- caller's calls
\* load(context, config, callbacks): stamp trequest, build the request
\* parameters, keep context and callbacks, make the request (which may
\* raise), arm the timer, issue the fetch
load ==
  /\ Turn
  /\ loads < MaxLoads
  /\ \E now \in clock, ctx \in contexts, cb \in handlers :
       LET l == loads + 1
           params == getRequestParameters(ctx, Signal)
           made == callFetchSetup(ctx, params)
       IN /\ stats' = [stats EXCEPT !.trequest = now]
          /\ initParams' = params
          /\ context' = ctx
          /\ callbacks' = [callbacks EXCEPT ![l] = cb]
          /\ loads' = l
          /\ IF made.raised
               THEN /\ log' = [log EXCEPT ![l] = <<"TypeError">>]
                    /\ UNCHANGED <<request, requestTimeout, timer, chain>>
               ELSE /\ request' = made.value
                    /\ requestTimeout' = l
                    /\ timer' = [timer EXCEPT ![l] = "armed"]
                    /\ chain' = [chain EXCEPT ![l] = "fetching"]
                    /\ log' = log
  /\ UNCHANGED <<controller, response, settledWith, pump, reported, fixed>>

\* The caller's contract: one load at a time, the next one only after the
\* last has settled, was cancelled or failed to start.  load() checks none
\* of this, and settling ends neither chain, timer nor pump.
CallerMayLoad == loads = 0 \/ chain[loads] = "idle" \/ Settled(loads)

\* the caller calls load() when its contract allows it to
callerLoad == CallerMayLoad /\ load

\* abort(): abortInternal(), then this.callbacks.onAbort if there is one;
\* reading onAbort of undefined callbacks raises a TypeError
abort ==
  /\ Turn
  /\ Calls < MaxCalls
  /\ abortInternal
  /\ log' = [log EXCEPT ![loads] = @ \o <<"abort()">> \o
               (IF ~callbacks[loads].registered THEN <<"TypeError">>
                ELSE IF callbacks[loads].onAbort THEN <<"onAbort">> ELSE <<>>)]
  /\ UNCHANGED <<response, requestTimeout, context, request, loads, initParams,
                 callbacks, timer, chain, settledWith, pump, reported, fixed>>

\* destroy(): abortInternal() and nothing else
destroy ==
  /\ Turn
  /\ Calls < MaxCalls
  /\ abortInternal
  /\ log' = [log EXCEPT ![loads] = Append(@, "destroy()")]
  /\ UNCHANGED <<response, requestTimeout, context, request, loads, initParams,
                 callbacks, timer, chain, settledWith, pump, reported, fixed>>

\* ------------------------------------------------------------ the timer
\* a setTimeout callback that reports the timeout and cancels nothing
timeout_NoAbortInternal(l) ==
  /\ Turn
  /\ timer[l] = "armed"
  /\ timer' = [timer EXCEPT ![l] = "fired"]
  /\ log' = [log EXCEPT ![l] = Append(@, "onTimeout")]
  /\ UNCHANGED <<stats, controller, response, requestTimeout, context, request,
                 loads, initParams, callbacks, chain, settledWith, pump,
                 reported, fixed>>

\* the setTimeout callback of load() call l: abortInternal(), then that
\* call's callbacks.onTimeout
timeout(l) ==
  /\ Turn
  /\ timer[l] = "armed"
  /\ timer' = [timer EXCEPT ![l] = "fired"]
  /\ abortInternal
  /\ log' = [log EXCEPT ![l] = Append(@, "onTimeout")]
  /\ UNCHANGED <<response, requestTimeout, context, request, loads, initParams,
                 callbacks, chain, settledWith, pump, reported, fixed>>

\* ------------------------------------------------------ response headers
\* the headers a successful response may carry: Content-Length or none
ResponseHeaders ==
  {NoHeaders} \cup {[name \in {"Content-Length"} |-> ToString(n)] : n \in Lengths}

\* header names a caller may ask for; one is no valid HTTP token
Names == {"Content-Length", "Age", "not a name"}

\* Headers.get(name): a TypeError for an invalid name, null for a missing
\* header, its value otherwise
headersGet(headers, name) ==
  IF name = "not a name" THEN [raised |-> TRUE, null |-> FALSE, value |-> <<>>]
  ELSE IF name \in DOMAIN headers
    THEN [raised |-> FALSE, null |-> FALSE, value |-> headers[name]]
  ELSE [raised |-> FALSE, null |-> TRUE, value |-> <<>>]

\* getResponseHeader() without the try/catch around the read
getResponseHeader_Unguarded(name) ==
  IF response.received THEN headersGet(response.headers, name)
  ELSE [raised |-> FALSE, null |-> TRUE, value |-> <<>>]

\* getResponseHeader(name): null without a response or when the read
\* raises, else what response.headers.get(name) returns
getResponseHeader(name) ==
  IF response.received /\ ~headersGet(response.headers, name).raised
    THEN headersGet(response.headers, name)
    ELSE [raised |-> FALSE, null |-> TRUE, value |-> <<>>]

\* -------------------------------------------------------- the transport
\* fetch(request) of call l resolves with a response
fetchResolves(l) ==
  /\ Turn
  /\ chain[l] = "fetching"
  /\ \E status \in Statuses :
       \E headers \in (IF Ok(status) THEN ResponseHeaders ELSE {NoHeaders}) :
         settledWith' = [settledWith EXCEPT ![l] =
                           [NoValue EXCEPT !.status = status,
                                           !.headers = headers]]
  /\ chain' = [chain EXCEPT ![l] = "responded"]
  /\ UNCHANGED <<stats, controller, response, requestTimeout, context, request,
                 loads, initParams, callbacks, timer, pump, log, reported, fixed>>

\* fetch(request) rejects: a network failure (a TypeError, no code) at any
\* time, or an AbortError once the signal is aborted
fetchRejects(l) ==
  /\ Turn
  /\ chain[l] = "fetching"
  /\ settledWith' = [settledWith EXCEPT ![l] = [NoValue EXCEPT !.error = "fetch"]]
  /\ chain' = [chain EXCEPT ![l] = "rejected"]
  /\ UNCHANGED <<stats, controller, response, requestTimeout, context, request,
                 loads, initParams, callbacks, timer, pump, log, reported, fixed>>

\* first then-handler: keep the response, throw on a bad status, stamp
\* tfirst and total, start the pump when onProgress is given, start decoding
onResponse(l) ==
  /\ Turn
  /\ chain[l] = "responded"
  /\ response' = [received |-> TRUE, status |-> settledWith[l].status,
                  headers |-> settledWith[l].headers]
  /\ IF ~Ok(settledWith[l].status)
       THEN /\ settledWith' = [settledWith EXCEPT ![l] =
                                 [NoValue EXCEPT !.code = settledWith[l].status,
                                                 !.error = "FetchError"]]
            /\ chain' = [chain EXCEPT ![l] = "rejected"]
            /\ UNCHANGED <<stats, pump>>
       ELSE /\ \E now \in clock :
                 LET header == headersGet(settledWith[l].headers, "Content-Length")
                 IN stats' = [stats EXCEPT
                        !.tfirst = Max(now, stats.trequest),
                        !.total = parseInt(IF header.null THEN <<"0">>
                                           ELSE header.value)]
            /\ IF callbacks[l].onProgress
                 \* response.clone().body.getReader() raises when the body
                 \* is null; otherwise the pump issues its first read
                 THEN \E noBody \in BOOLEAN :
                        IF noBody
                          THEN /\ chain' = [chain EXCEPT ![l] = "rejected"]
                               /\ settledWith' = [settledWith EXCEPT ![l] =
                                     [NoValue EXCEPT !.error = "getReader"]]
                               /\ pump' = pump
                          ELSE /\ chain' = [chain EXCEPT ![l] = "decoding"]
                               /\ settledWith' = [settledWith EXCEPT ![l] = NoValue]
                               /\ pump' = [pump EXCEPT ![l] = "reading"]
                 ELSE /\ chain' = [chain EXCEPT ![l] = "decoding"]
                      /\ settledWith' = [settledWith EXCEPT ![l] = NoValue]
                      /\ pump' = pump
  /\ UNCHANGED <<controller, requestTimeout, context, request, loads, initParams,
                 callbacks, timer, log, reported, fixed>>

\* response.text() / response.arrayBuffer() resolves with the payload
decodeResolves(l) ==
  /\ Turn
  /\ chain[l] = "decoding"
  /\ \E length \in Lengths :
       settledWith' = [settledWith EXCEPT ![l] = [NoValue EXCEPT !.length = length]]
  /\ chain' = [chain EXCEPT ![l] = "decoded"]
  /\ UNCHANGED <<stats, controller, response, requestTimeout, context, request,
                 loads, initParams, callbacks, timer, pump, log, reported, fixed>>

\* the body read rejects (connection reset, decode failure, cancellation)
decodeRejects(l) ==
  /\ Turn
  /\ chain[l] = "decoding"
  /\ settledWith' = [settledWith EXCEPT ![l] = [NoValue EXCEPT !.error = "decode"]]
  /\ chain' = [chain EXCEPT ![l] = "rejected"]
  /\ UNCHANGED <<stats, controller, response, requestTimeout, context, request,
                 loads, initParams, callbacks, timer, pump, log, reported, fixed>>

\* second then-handler: clear the timer this.requestTimeout names, stamp
\* tload, set loaded and total, call onSuccess; what onSuccess throws
\* rejects the chain
onDecoded(l) ==
  /\ Turn
  /\ chain[l] = "decoded"
  /\ timer' = clearTimeout(requestTimeout)
  /\ \E now \in clock :
       stats' = [stats EXCEPT !.tload = Max(now, stats.tfirst),
                              !.loaded = settledWith[l].length,
                              !.total = settledWith[l].length]
  /\ log' = [log EXCEPT ![l] = Append(@, "onSuccess")]
  /\ \/ /\ chain' = [chain EXCEPT ![l] = "done"]
        /\ settledWith' = [settledWith EXCEPT ![l] = NoValue]
     \/ \E thrown \in Thrown :
          /\ chain' = [chain EXCEPT ![l] = "rejected"]
          /\ settledWith' = [settledWith EXCEPT ![l] =
                               [NoValue EXCEPT !.error = "onSuccess",
                                               !.code = thrown.code,
                                               !.nullish = thrown.nullish]]
  /\ UNCHANGED <<controller, response, requestTimeout, context, request, loads,
                 initParams, callbacks, pump, reported, fixed>>

\* catch-handler: clear the timer this.requestTimeout names; return when
\* stats.aborted; else read error.code and error.message, which raises a
\* TypeError inside the handler when the reason is undefined or null, and
\* call onError
onRejected(l) ==
  /\ Turn
  /\ chain[l] = "rejected"
  /\ timer' = clearTimeout(requestTimeout)
  /\ IF stats.aborted \/ settledWith[l].nullish
       THEN UNCHANGED <<log, reported>>
       ELSE /\ log' = [log EXCEPT ![l] = Append(@, "onError")]
            /\ reported' = [reported EXCEPT ![l] =
                              [code |-> settledWith[l].code,
                               error |-> settledWith[l].error]]
  /\ chain' = [chain EXCEPT ![l] = "done"]
  /\ settledWith' = [settledWith EXCEPT ![l] = NoValue]
  /\ UNCHANGED <<stats, controller, response, requestTimeout, context, request,
                 loads, initParams, callbacks, pump, fixed>>

\* ------------------------------------------------------------- the pump
\* reader.read() resolves with a chunk
readResolves(l) ==
  /\ Turn
  /\ pump[l] = "reading"
  /\ Count(log[l], "onProgress") < MaxChunks
  /\ pump' = [pump EXCEPT ![l] = "chunk"]
  /\ UNCHANGED <<stats, controller, response, requestTimeout, context, request,
                 loads, initParams, callbacks, timer, chain, settledWith, log,
                 reported, fixed>>

\* the read's then-handler on a chunk: loaded += length, onProgress, pump();
\* what onProgress throws is caught by the pump's own catch, which ends it
onChunk(l) ==
  /\ Turn
  /\ pump[l] = "chunk"
  /\ \E length \in Lengths \ {0} :
       stats' = [stats EXCEPT !.loaded = stats.loaded + length]
  /\ log' = [log EXCEPT ![l] = Append(@, "onProgress")]
  /\ \E throws \in BOOLEAN :
       pump' = [pump EXCEPT ![l] = IF throws THEN "stopped" ELSE "reading"]
  /\ UNCHANGED <<controller, response, requestTimeout, context, request, loads,
                 initParams, callbacks, timer, chain, settledWith, reported,
                 fixed>>

\* reader.read() resolves with done, or rejects: the pump returns either way
readEnds(l) ==
  /\ Turn
  /\ pump[l] = "reading"
  /\ pump' = [pump EXCEPT ![l] = "stopped"]
  /\ UNCHANGED <<stats, controller, response, requestTimeout, context, request,
                 loads, initParams, callbacks, timer, chain, settledWith, log,
                 reported, fixed>>

Next ==
  \/ callerLoad
  \/ abort
  \/ destroy
  \/ \E l \in 1..MaxLoads : timeout(l)
  \/ \E l \in 1..MaxLoads : fetchResolves(l)
  \/ \E l \in 1..MaxLoads : fetchRejects(l)
  \/ \E l \in 1..MaxLoads : onResponse(l)
  \/ \E l \in 1..MaxLoads : decodeResolves(l)
  \/ \E l \in 1..MaxLoads : decodeRejects(l)
  \/ \E l \in 1..MaxLoads : onDecoded(l)
  \/ \E l \in 1..MaxLoads : onRejected(l)
  \/ \E l \in 1..MaxLoads : readResolves(l)
  \/ \E l \in 1..MaxLoads : onChunk(l)
  \/ \E l \in 1..MaxLoads : readEnds(l)

Spec == Init /\ [][Next]_vars

\* the same Loader under a clock that returns any reading at any time
TimeInit ==
  \E ctx \in Whole, cb \in Callbacks : Constructed("getRequest", {ctx}, {cb}, Clock)
TimeSpec == TimeInit /\ [][Next]_vars

\* getRequestParameters on every context the transport accepts, and on the
\* whole-resource ones it does not, under either request factory: the
\* load() calls that build the parameters
ParamInit ==
  \E setup \in {"getRequest", "custom"} :
    Constructed(setup, {ctx \in Contexts : ctx.url = "valid"} \cup Whole,
                Callbacks, {1})
ParamNext == callerLoad
ParamSpec == ParamInit /\ [][ParamNext]_vars

\* ===================================================================
\* Vocabulary of the claims, read off the log of load() call l
\* ===================================================================
\* log[l][i] is the first settling event of the load: the load was still in
\* flight when it happened
FirstSettling(l, i) == \A k \in 1..(i - 1) : log[l][k] \notin Terminal \cup Cancels

\* the step appends to the log of l, starting with event e
Logs(l, e) == Len(log'[l]) > Len(log[l]) /\ log'[l][Len(log[l]) + 1] = e

\* the watchdog of l fires in this step
TimerFires(l) == timer[l] = "armed" /\ timer'[l] = "fired"

\* ------------------------------------------------------------------
\* C1: at most one callback of the terminal family {onSuccess, onError,
\* onTimeout} is invoked for a load, whatever the interleaving.
C1_OriginalClaim ==
  \A l \in 1..MaxLoads :
    Started(l) => Cardinality({i \in 1..Len(log[l]) : log[l][i] \in Terminal}) <= 1

\* ------------------------------------------------------------------
\* the promise chain has run to its end, or the watchdog has fired
Ended(l) == Started(l) /\ (chain[l] = "done" \/ timer[l] = "fired")

\* C2: a load that has ended has delivered at least one of onSuccess,
\* onError, onTimeout, onAbort, abort() or destroy() before or during the
\* load included; stated for the loads that registered an onAbort, so that
\* an abort() has a callback to deliver.
C2_OriginalClaim ==
  \A l \in 1..MaxLoads :
    (Ended(l) /\ callbacks[l].onAbort) => HasAny(l, Notifications)

\* ------------------------------------------------------------------
\* C3: when abort() is called on a load in flight, onAbort (if registered)
\* is invoked by that call and onError is never invoked for the load
\* afterwards, whatever the transport does after the abort.
C3_AbortSuppressesError ==
  \A l \in 1..MaxLoads : \A i \in 1..Len(log[l]) :
    (Started(l) /\ log[l][i] = "abort()" /\ FirstSettling(l, i)) =>
       /\ callbacks[l].onAbort => (i < Len(log[l]) /\ log[l][i + 1] = "onAbort")
       /\ \A j \in (i + 1)..Len(log[l]) : log[l][j] # "onError"

\* abort() hit a first load in flight, the transport's rejection (or a bad
\* status) came after it and the catch-handler has swallowed it
C3_Witness ==
  loads = 1 /\ chain[1] = "done" /\ log[1] = <<"abort()", "onAbort">>

\* ------------------------------------------------------------------
\* C4: after abort() is called on a load in flight, onTimeout is never
\* invoked for that load.
C4_OriginalClaim ==
  \A l \in 1..MaxLoads : \A i \in 1..Len(log[l]) :
    (Started(l) /\ log[l][i] = "abort()" /\ FirstSettling(l, i)) =>
       \A j \in (i + 1)..Len(log[l]) : log[l][j] # "onTimeout"

\* ------------------------------------------------------------------
\* C5: when the watchdog fires on a load that has not settled, onTimeout
\* is invoked exactly once and neither onSuccess nor onError is ever
\* invoked for that load.
C5_OriginalClaim ==
  \A l \in 1..MaxLoads : \A i \in 1..Len(log[l]) :
    (Started(l) /\ log[l][i] = "onTimeout" /\ FirstSettling(l, i)) =>
       /\ Count(log[l], "onTimeout") = 1
       /\ ~Has(l, "onSuccess")
       /\ ~Has(l, "onError")

\* ------------------------------------------------------------------
\* C6 (as claimed): the watchdog firing leaves stats.aborted unchanged and
\* invokes no onAbort.
C6_OriginalClaim ==
  [][\A l \in 1..MaxLoads :
       TimerFires(l) =>
         /\ stats'.aborted = stats.aborted
         /\ Count(log'[l], "onAbort") = Count(log[l], "onAbort")]_vars

\* C6 (amended): the watchdog firing sets stats.aborted to true and signals
\* the cancellation token (it runs the same abortInternal as destroy()) and
\* invokes onTimeout only, never onAbort.
C6_TimeoutSetsAbortedSilently ==
  [][\A l \in 1..MaxLoads :
       TimerFires(l) =>
         /\ stats'.aborted /\ controller'.aborted
         /\ log' = [log EXCEPT ![l] = Append(@, "onTimeout")]]_vars

\* the watchdog alone has fired on a first load: stats.aborted is set and
\* nobody called abort() or destroy()
C6_Witness ==
  /\ loads = 1 /\ timer[1] = "fired" /\ stats.aborted
  /\ ~HasAny(1, Cancels) /\ ~Has(1, "onAbort")

\* ------------------------------------------------------------------
\* C7: abort() and destroy() on a settled load invoke no callback and do
\* not throw.
C7_OriginalClaim ==
  [][\A c \in Cancels :
       (Settled(loads) /\ Logs(loads, c)) =>
          log'[loads] = Append(log[loads], c)]_vars

\* ------------------------------------------------------------------
\* C8: abort() raises no error in any loader state, a Loader on which
\* load() was never called included.
C8_OriginalClaim ==
  \A l \in Loads : \A i \in 1..Len(log[l]) :
    log[l][i] = "abort()" => ~(i < Len(log[l]) /\ log[l][i + 1] = "TypeError")

\* ------------------------------------------------------------------
\* C9: in every state in which the load has settled the watchdog is not
\* armed (it is disarmed in the very step that settles the load).
C9_OriginalClaim ==
  \A l \in 1..MaxLoads : Settled(l) => timer[l] # "armed"

\* ------------------------------------------------------------------
\* C10: a load() that enters Loading from a terminal state starts with a
\* cancellation token that is not signalled and with stats.aborted false.
C10_OriginalClaim ==
  [][(Settled(loads) /\ loads' = loads + 1 /\ chain'[loads'] = "fetching") =>
        (~controller'.aborted /\ ~stats'.aborted)]_vars

\* ------------------------------------------------------------------
\* C11: once onSuccess has been invoked for a load, stats.loaded equals
\* stats.total in every later state of that load (onSuccess leaves both at
\* the decoded payload length and nothing writes total afterwards), also
\* while the progress pump is still delivering chunks.
C11_OriginalClaim == Has(loads, "onSuccess") => stats.loaded = stats.total

\* ------------------------------------------------------------------
\* C12: in every state of a load, whenever stats.total > 0, stats.loaded is
\* at most stats.total.
C12_OriginalClaim ==
  (Started(loads) /\ stats.total > 0) => stats.loaded <= stats.total

\* ------------------------------------------------------------------
\* C13: for every settled load, under a clock that may go backwards, the
\* timestamps that are set are ordered: tfirst >= trequest, tload >= tfirst.
C13_OriginalClaim ==
  Settled(loads) => /\ stats.tfirst # 0 => stats.tfirst >= stats.trequest
                    /\ stats.tload # 0 => stats.tload >= stats.tfirst

\* ------------------------------------------------------------------
\* C14: when the catch handler gets the FetchError of a response with a
\* non-success status in a load that was neither aborted nor timed out
\* (no abort(), destroy() or onTimeout in it), it invokes onError with code
\* equal to the status; the load has no onSuccess and no pump, and its
\* timer is no longer armed.
C14_OriginalClaim ==
  [][\A l \in 1..MaxLoads :
       (/\ chain[l] = "rejected" /\ chain'[l] = "done"
        /\ settledWith[l].error = "FetchError"
        /\ ~HasAny(l, Cancels \cup {"onTimeout"})) =>
          /\ log'[l] = Append(log[l], "onError")
          /\ settledWith[l].code \in Statuses /\ ~Ok(settledWith[l].code)
          /\ reported'[l] = [code |-> settledWith[l].code, error |-> "FetchError"]
          /\ ~Has(l, "onSuccess") /\ pump[l] = "off"
          /\ timer'[l] # "armed"]_vars

\* ------------------------------------------------------------------
\* Reading a Range header back: s is the canonical decimal numeral of n
IsNumeral(s, n) ==
  /\ Len(s) > 0
  /\ \A i \in 1..Len(s) : \E d \in 0..9 : Digit[d + 1] = s[i]
  /\ Len(s) > 1 => s[1] # "0"
  /\ parseInt(s) = n

\* h reads "bytes=<first>-<last>"
IsByteRange(h, first, last) ==
  /\ Len(h) > 6
  /\ SubSeq(h, 1, 6) = <<"b", "y", "t", "e", "s", "=">>
  /\ \E dash \in 7..Len(h) :
       /\ h[dash] = "-"
       /\ IsNumeral(SubSeq(h, 7, dash - 1), first)
       /\ IsNumeral(SubSeq(h, dash + 1, Len(h)), last)

\* C15: the parameters load() gets from getRequestParameters are a GET that
\* carries the instance's signal; for 0 <= rangeStart < rangeEnd the Range
\* header is "bytes=<rangeStart>-<rangeEnd - 1>", and without a rangeEnd
\* there is no Range header.  The default factory hands them to the
\* request unchanged.
C15_RequestParameters ==
  loads > 0 =>
    /\ initParams.method = "GET"
    /\ initParams.signal = Signal
    /\ context.rangeEnd = Absent => "Range" \notin DOMAIN initParams.headers
    /\ (context.rangeStart # Absent /\ context.rangeStart < context.rangeEnd) =>
         /\ "Range" \in DOMAIN initParams.headers
         /\ IsByteRange(initParams.headers["Range"], context.rangeStart,
                        context.rangeEnd - 1)
    /\ (fetchSetup = "getRequest" /\ context.url = "valid") => request = initParams

C15_Witness ==
  /\ loads = 1
  /\ context.rangeStart = 9 /\ context.rangeEnd = 11
  /\ initParams.headers["Range"] = <<"b", "y", "t", "e", "s", "=", "9", "-", "1", "0">>

\* ------------------------------------------------------------------
\* C16: destroy() tears the load down silently: it invokes no onAbort, and
\* after it no callback of any kind (onSuccess, onError, onTimeout,
\* onProgress, onAbort) is invoked for that load.
C16_OriginalClaim ==
  \A l \in 1..MaxLoads : \A i \in 1..Len(log[l]) :
    (Started(l) /\ log[l][i] = "destroy()") =>
       \A j \in (i + 1)..Len(log[l]) :
          log[l][j] \notin Notifications \cup {"onProgress"}

\* ------------------------------------------------------------------
\* what getResponseHeader returns in a state, for every name
C17_Lookup ==
  \A name \in Names :
    LET result == getResponseHeader(name)
        found  == response.received /\ name # "not a name"
                  /\ name \in DOMAIN response.headers
    IN /\ ~result.raised
       /\ ~found => result.null
       /\ found => (~result.null /\ result.value = response.headers[name])

\* C17: getResponseHeader(name) never raises; it returns null while no
\* response has been received, when the response lacks the header and when
\* reading it raises, and otherwise the header's value in the response the
\* first handler stored last.
C17_HeaderOrNull ==
  [][/\ C17_Lookup'
     /\ \A l \in 1..MaxLoads :
          (chain[l] = "responded" /\ chain'[l] # "responded") =>
             /\ response'.received
             /\ response'.headers = settledWith[l].headers]_vars

C17_Witness ==
  /\ response.received
  /\ getResponseHeader("Content-Length")
       = [raised |-> FALSE, null |-> FALSE, value |-> <<"1">>]
  /\ getResponseHeader("Age").null
  /\ getResponseHeader("not a name").null
  /\ headersGet(response.headers, "not a name").raised

\* ------------------------------------------------------------------
\* C18: once abort(), destroy() or the watchdog has signalled the
\* cancellation token in a load, no onSuccess and no further onProgress is
\* invoked for that load, whatever continuation was pending at that moment.
C18_OriginalClaim ==
  \A l \in 1..MaxLoads : \A i \in 1..Len(log[l]) :
    (Started(l) /\ log[l][i] \in Cancels \cup {"onTimeout"}) =>
       \A j \in (i + 1)..Len(log[l]) : log[l][j] \notin {"onSuccess", "onProgress"}

\* ------------------------------------------------------------------
\* C19: a failure of the progress pump, the failure to get a reader on the
\* cloned body included, never causes onError.
C19_OriginalClaim ==
  \A l \in 1..MaxLoads : ~(Has(l, "onError") /\ reported[l].error = "getReader")

\* ------------------------------------------------------------------
\* C20: what the success handler raises after invoking onSuccess rejects
\* the chain and reaches the catch handler, which invokes onError for the
\* same load when stats.aborted is unset and stays silent when it is set.
C20_OriginalClaim ==
  [][\A l \in 1..MaxLoads :
      /\ (chain[l] = "decoded" /\ chain'[l] # "decoded") =>
            /\ Logs(l, "onSuccess")
            /\ chain'[l] \in {"rejected", "done"}
            /\ chain'[l] = "rejected" => settledWith'[l].error = "onSuccess"
      /\ (chain[l] = "rejected" /\ chain'[l] = "done"
          /\ settledWith[l].error = "onSuccess") =>
            /\ Has(l, "onSuccess")
            /\ IF stats.aborted
                 THEN log'[l] = log[l] /\ reported' = reported
                 ELSE Logs(l, "onError")]_vars
====
